---- MODULE Spec2Model ----
(***************************************************************************)
(* Session classification pipeline of confusion_bank: the in-memory        *)
(* activity tracker (classifier.py), the SQLite repository (database.py),  *)
(* the completion-service boundary (llm_service.py) and the Flask handlers *)
(* that drive them (app.py).  Request handlers are threads of one process: *)
(* they share the tracker dict and the database and interleave at every    *)
(* blocking call.                                                          *)
(***************************************************************************)
EXTENDS Integers, Sequences, FiniteSets, TLC

\* ------------------------------------------------------------------ bounds
MaxTime == 1800
MaxConversations == 2
MaxCourses == 1
MaxRecords == 2
MaxBusy == 2
MaxRows == 3

\* classifier.py:13  SESSION_TIMEOUT = 30 * 60
SESSION_TIMEOUT == 1800

\* Clock advances between two observations of time.time() (seconds).
TickSteps == {900}

Sessions == {"s1", "s2"}
Workers == {1, 2}

\* Optional values (Python None / a value): None is <<>>, a value v is <<v>>.
None == <<>>
Some(v) == <<v>>

VARIABLES
    now,               \* time.time()
    active_sessions,   \* classifier.active_sessions: dict session_id -> last activity
    conversations,     \* table conversations
    confusion_points,  \* table confusion_points
    courses,           \* table courses (ids)
    chat,              \* the thread serving POST /api/chat
    wk                 \* the threads serving /admin/run-analysis and /admin/analyze-session

vars == <<now, active_sessions, conversations, confusion_points, courses, chat, wk>>

\* ---------------------------------------------------- the tracker's dict
\* A CPython dict keeps its entries in insertion order; `del` leaves a dummy
\* entry behind, and an insertion into a full entry table rebuilds the table
\* without the dummies.  An empty dict literal gets 8 slots, 5 usable entries.
DictUsable == 5
Dummy == "<dummy>"

Live(d) == {i \in DOMAIN d : d[i].sid # Dummy}
Keys(d) == {d[i].sid : i \in Live(d)}
Used(d) == Cardinality(Live(d))
Lookup(d, s) == d[CHOOSE i \in Live(d) : d[i].sid = s].ts
Compact(d) == SelectSeq(d, LAMBDA e : e.sid # Dummy)

\* d[s] = t
DictSet(d, s, t) ==
    IF s \in Keys(d)
    THEN [i \in DOMAIN d |-> IF d[i].sid = s THEN [sid |-> s, ts |-> t] ELSE d[i]]
    ELSE Append(IF Len(d) >= DictUsable THEN Compact(d) ELSE d, [sid |-> s, ts |-> t])

\* del d[s]
DictDel(d, s) ==
    [i \in DOMAIN d |-> IF d[i].sid = s THEN [sid |-> Dummy, ts |-> 0] ELSE d[i]]

\* ------------------------------------------------------------ repository
\* A check that would send every expired session to classification again.
NeedsAnalysisAlways(cp, session_id) == TRUE

\* check_session_needs_analysis: no confusion_points row for the session.
check_session_needs_analysis(cp, session_id) ==
    \A i \in DOMAIN cp : cp[i].session_id # session_id

\* The rows of cv at the indices in rows, listed by created_at, ascending or
\* descending, rows of equal created_at in the order of the scan (rowid).
SortedRows(cv, rows, ascending) ==
    LET n == Cardinality(rows)
        f == CHOOSE g \in [1..n -> rows] :
                 /\ \A a, b \in 1..n : g[a] = g[b] => a = b
                 /\ \A a, b \in 1..n :
                       a < b => \/ cv[g[a]].created_at = cv[g[b]].created_at /\ g[a] < g[b]
                                \/ ascending /\ cv[g[a]].created_at < cv[g[b]].created_at
                                \/ ~ascending /\ cv[g[a]].created_at > cv[g[b]].created_at
    IN [k \in 1..n |-> cv[f[k]]]

\* A listing that would put the newest conversation first.
ListNewestFirst(cv, session_id) ==
    SortedRows(cv, {i \in DOMAIN cv : cv[i].session_id = session_id}, FALSE)

\* get_session_conversations: the session's rows, ORDER BY created_at ASC.
get_session_conversations(cv, session_id) ==
    SortedRows(cv, {i \in DOMAIN cv : cv[i].session_id = session_id}, TRUE)

\* save_conversation: INSERT, id from AUTOINCREMENT, created_at CURRENT_TIMESTAMP.
save_conversation(cv, session_id, t) ==
    Append(cv, [id |-> Len(cv) + 1, session_id |-> session_id, created_at |-> t])

\* save_confusion_analysis: INSERT one row.
save_confusion_analysis(cp, session_id, course_id, unit, topics, confused, t) ==
    Append(cp, [id |-> Len(cp) + 1, session_id |-> session_id, course_id |-> course_id,
                unit |-> unit, topics |-> topics,
                confused_conversation_ids |-> confused, created_at |-> t])

RecordsOf(cp, session_id) == {i \in DOMAIN cp : cp[i].session_id = session_id}

\* -------------------------------------------------- text, JSON and LIKE
\* Topics are Python strings; Chars gives the characters of the ones used.
Chars ==
    ("loops" :> <<"l", "o", "o", "p", "s">>) @@
    ("LOOPS" :> <<"L", "O", "O", "P", "S">>) @@
    ("recursion" :> <<"r", "e", "c", "u", "r", "s", "i", "o", "n">>) @@
    ("pointers" :> <<"p", "o", "i", "n", "t", "e", "r", "s">>) @@
    ("caf<e9>" :> <<"c", "a", "f", "<e9>">>) @@
    ("%" :> <<"%">>)

\* The one character outside ASCII, U+00E9, is written <e9>.
Ascii(c) == c # "<e9>"

\* json.dumps of a str (ensure_ascii): a quoted string with the characters
\* outside ASCII as \uXXXX escapes.
RECURSIVE JsonEscape(_)
JsonEscape(str) ==
    IF str = <<>> THEN <<>>
    ELSE (IF Ascii(Head(str)) THEN <<Head(str)>> ELSE <<"\\", "u", "0", "0", "e", "9">>)
         \o JsonEscape(Tail(str))

JsonString(str) == <<"\"">> \o JsonEscape(str) \o <<"\"">>

\* json.dumps of a list of str: [ items joined by ", " ].
RECURSIVE JsonItems(_)
JsonItems(list) ==
    IF list = <<>> THEN <<>>
    ELSE JsonString(Chars[Head(list)])
         \o (IF Tail(list) = <<>> THEN <<>> ELSE <<",", " ">> \o JsonItems(Tail(list)))

JsonDumps(list) == <<"[">> \o JsonItems(list) \o <<"]">>

\* SQLite folds the case of ASCII letters in LIKE.
Fold(c) ==
    CASE c = "L" -> "l" [] c = "O" -> "o" [] c = "P" -> "p" [] c = "S" -> "s"
      [] OTHER -> c

\* text LIKE pattern: % is any run of characters, _ any one character.
RECURSIVE Like(_, _)
Like(text, pattern) ==
    IF pattern = <<>> THEN text = <<>>
    ELSE IF Head(pattern) = "%"
    THEN \E k \in 0..Len(text) : Like(SubSeq(text, k + 1, Len(text)), Tail(pattern))
    ELSE /\ text # <<>>
         /\ Head(pattern) = "_" \/ Fold(Head(pattern)) = Fold(Head(text))
         /\ Like(Tail(text), Tail(pattern))

\* database.py:233  f'%"{topic}"%'
TopicPattern(topic) == <<"%", "\"">> \o Chars[topic] \o <<"\"", "%">>

\* Python truth of an optional string: None and "" are false.
TruthyStr(v) == v # None /\ v[1] # ""

\* database.py:222-236: the WHERE clause built for the arguments.  A filter
\* is added only for an argument that is true in Python; the topics column
\* holds json.dumps(topics).
RowMatches(row, course_id, unit, topics) ==
    /\ (course_id # None /\ course_id[1] # 0) => row.course_id = course_id
    /\ TruthyStr(unit) => row.unit = unit
    /\ topics # <<>> =>
          \E i \in DOMAIN topics : Like(JsonDumps(row.topics), TopicPattern(topics[i]))

\* get_confusion_sessions: SELECT DISTINCT session_id ... ORDER BY created_at
\* DESC.  SQLite scans the table by rowid and keeps, for each session_id, the
\* first matching row it meets; it then sorts the kept rows by created_at,
\* its sorter keeping rows of equal created_at in the order of the scan.
\* The operator is the set of lists the query can return.
get_confusion_sessions(cp, course_id, unit, topics) ==
    LET kept == {i \in DOMAIN cp :
                    /\ RowMatches(cp[i], course_id, unit, topics)
                    /\ \A j \in 1..(i - 1) :
                          RowMatches(cp[j], course_id, unit, topics)
                          => cp[j].session_id # cp[i].session_id}
        n == Cardinality(kept)
        orders == {f \in [1..n -> kept] :
                     /\ \A a, b \in 1..n : f[a] = f[b] => a = b
                     /\ \A a, b \in 1..n :
                           a < b => \/ cp[f[a]].created_at > cp[f[b]].created_at
                                    \/ /\ cp[f[a]].created_at = cp[f[b]].created_at
                                       /\ f[a] < f[b]}
    IN {[k \in 1..n |-> cp[f[k]].session_id] : f \in orders}

\* ------------------------------------------------------ completion service
\* What client.messages.create can produce for the session_analysis prompt:
\* an exception, or a text.  A text is prose around at most one JSON value:
\* wrap says how the value is wrapped (a ```json fence, bare braces, or no
\* braces at all), body is the value.  A JSON object lists the keys it holds
\* (fields); a key it does not hold has no value.
AnalysisFields == {"course_id", "unit", "topics", "confused_conversation_ids"}

JsonFull ==
    [fields |-> AnalysisFields, course_id |-> Some(1), unit |-> Some("Unit 1"),
     topics |-> <<"loops">>, confused_conversation_ids |-> <<1>>]
JsonNoCourse ==
    [fields |-> AnalysisFields, course_id |-> None, unit |-> Some("Unit 1"),
     topics |-> <<"loops">>, confused_conversation_ids |-> <<1>>]
JsonEmpty ==
    [fields |-> {}, course_id |-> None, unit |-> None,
     topics |-> <<>>, confused_conversation_ids |-> <<>>]

Completions ==
    {[transport |-> "error", wrap |-> "prose", body |-> JsonEmpty],
     [transport |-> "ok", wrap |-> "prose", body |-> JsonEmpty],
     [transport |-> "ok", wrap |-> "fence", body |-> JsonFull],
     [transport |-> "ok", wrap |-> "bare", body |-> JsonNoCourse]}

\* llm_service.py:107-120: the text between the fence, or from the first "{"
\* to the last "}", is handed to json.loads; a text with neither is handed
\* over whole and json.loads raises.
JsonLoads(completion) ==
    IF completion.wrap \in {"fence", "bare"} THEN Some(completion.body) ELSE None

\* dict.get(key, default)
Get(obj, key, default) == IF key \in obj.fields THEN obj[key] ELSE default

EmptyAnalysis ==
    [course_id |-> None, unit |-> None, topics |-> <<>>,
     confused_conversation_ids |-> <<>>]

\* analyze_session_confusion: every exception ends in the empty analysis.
analyze_session_confusion(completion) ==
    IF completion.transport = "error" \/ JsonLoads(completion) = None
    THEN EmptyAnalysis
    ELSE LET obj == JsonLoads(completion)[1]
         IN [course_id |-> Get(obj, "course_id", None),
             unit |-> Get(obj, "unit", None),
             topics |-> Get(obj, "topics", <<>>),
             confused_conversation_ids |-> Get(obj, "confused_conversation_ids", <<>>)]

\* How the completion went, as the caller of the service would tell it.
ResponseKind(completion) ==
    IF completion.transport = "error" THEN "error"
    ELSE IF JsonLoads(completion) = None THEN "nojson" ELSE "json"

\* Python truth of an optional id: None and 0 are false.
Truthy(v) == v # None /\ v[1] # 0

\* A save that would keep the result's unit, topics and ids when it names no
\* course.
AnalysisRowVerbatim(analysis_result) == analysis_result

\* classifier.py:85-112: the row analyze_single_session saves for a result.
AnalysisRow(analysis_result) ==
    IF Truthy(analysis_result.course_id)
    THEN analysis_result
    ELSE EmptyAnalysis

\* ---------------------------------------------------------------- tracker
\* An expiry test that would leave out the boundary.
IsExpiredStrict(current_time, last_activity) ==
    current_time - last_activity > SESSION_TIMEOUT

\* classifier.py:31
IsExpired(current_time, last_activity) ==
    current_time - last_activity >= SESSION_TIMEOUT

\* A touch that would keep the time of the session's first activity.
TouchKeepsFirst(d, session_id, t) ==
    IF session_id \in Keys(d) THEN d ELSE DictSet(d, session_id, t)

\* update_session_activity
update_session_activity(d, session_id, t) == DictSet(d, session_id, t)

\* A clear that would empty the tracker.
MarkClearsAll(d, session_id) == <<>>

\* mark_session_analyzed
mark_session_analyzed(d, session_id) ==
    IF session_id \in Keys(d) THEN DictDel(d, session_id) ELSE d

\* ------------------------------------------------------------------ state
\* asked: chat_with_claude was called
IdleChat == [pc |-> "idle", session_id |-> "", status |-> "none", asked |-> FALSE]

\* No completion has been asked for.
NoCompletion == [transport |-> "none", wrap |-> "prose", body |-> JsonEmpty]

\* The arguments of get_confusion_sessions when none is given.
NoQuery == [course_id |-> None, unit |-> None, topics |-> <<>>]

\* A handler thread's locals.  handled and counts are history, not program
\* state: the sessions the sweep's loop body was entered for, and how many
\* classifications of the sweep returned True and False.
IdleWorker ==
    [pc |-> "idle", kind |-> "none",
     current_time |-> 0, di_used |-> 0, di_len |-> 0, di_pos |-> 0,
     expired_sessions |-> <<>>, idx |-> 0,
     session_id |-> "", completion |-> NoCompletion,
     response |-> "none", analysis_result |-> EmptyAnalysis,
     insert |-> "none", result |-> "None",
     raised |-> FALSE, ret |-> None,
     query |-> NoQuery, queried |-> FALSE, sessions |-> <<>>,
     session_data |-> <<>>, context |-> None, synthesis |-> NoCompletion,
     handled |-> <<>>, counts |-> <<0, 0>>]

Init ==
    /\ now = 0
    /\ active_sessions = <<>>
    /\ conversations = <<>>
    /\ confusion_points = <<>>
    /\ courses = {}
    /\ chat = IdleChat
    /\ wk = [w \in Workers |-> IdleWorker]

\* The clock, in steps far longer than any handler runs: a step passes between
\* requests, never inside one.
Quiescent == chat.pc = "idle" /\ \A w \in Workers : wk[w].pc = "idle"

\* The server's pool serves at most MaxBusy requests at a time.
Busy ==
    Cardinality({w \in Workers : wk[w].pc # "idle"}) + (IF chat.pc = "idle" THEN 0 ELSE 1)

Tick ==
    /\ Quiescent
    /\ \E d \in TickSteps : now + d <= MaxTime /\ now' = now + d
    /\ UNCHANGED <<active_sessions, conversations, confusion_points, courses, chat, wk>>

\* POST /upload that succeeds: save_course inserts a course.
AddCourse ==
    /\ Cardinality(courses) < MaxCourses
    /\ courses' = courses \cup {Cardinality(courses) + 1}
    /\ UNCHANGED <<now, active_sessions, conversations, confusion_points, chat, wk>>

\* ------------------------------------------------------------- POST /api/chat
\* str.strip on the messages sent: a blank message is left empty.
Strip(message) == IF message = " " THEN "" ELSE message

\* A validation that would look at the message only.
RejectedByMessage(message, session_id) == Strip(message) = ""

\* api_chat, lines 78-91: the message is empty after strip, or the session id
\* is missing.
Rejected(message, session_id) == Strip(message) = "" \/ session_id = ""

\* A handler that would touch the tracker although its INSERT raised.
ChatRequestTouchesUnsaved(message, session_id, db) ==
    /\ chat.pc = "idle"
    /\ Busy < MaxBusy
    /\ ~Rejected(message, session_id)
    /\ IF db = "raise"
       THEN UNCHANGED conversations
       ELSE /\ Len(conversations) < MaxConversations
            /\ conversations' = save_conversation(conversations, session_id, now)
    /\ chat' = [pc |-> "touch", session_id |-> session_id, status |-> "none",
                asked |-> TRUE]
    /\ UNCHANGED <<now, active_sessions, confusion_points, courses, wk>>

\* api_chat, lines 76-97: validation, chat_with_claude (which never raises and
\* writes nothing), save_conversation.  db is whether the INSERT succeeds.
ChatRequest(message, session_id, db) ==
    /\ chat.pc = "idle"
    /\ Busy < MaxBusy
    /\ IF Rejected(message, session_id)
       THEN /\ chat' = [IdleChat EXCEPT !.pc = "done", !.status = "error"]
            /\ UNCHANGED conversations
       ELSE IF db = "raise"
       THEN /\ chat' = [IdleChat EXCEPT !.pc = "done", !.status = "error", !.asked = TRUE]
            /\ UNCHANGED conversations
       ELSE /\ Len(conversations) < MaxConversations
            /\ conversations' = save_conversation(conversations, session_id, now)
            /\ chat' = [pc |-> "touch", session_id |-> session_id, status |-> "none",
                        asked |-> TRUE]
    /\ UNCHANGED <<now, active_sessions, confusion_points, courses, wk>>

\* api_chat, lines 99-106: update_session_activity, then the success response.
ChatTouch ==
    /\ chat.pc = "touch"
    /\ active_sessions' = update_session_activity(active_sessions, chat.session_id, now)
    /\ chat' = [IdleChat EXCEPT !.pc = "done", !.status = "success", !.asked = TRUE]
    /\ UNCHANGED <<now, conversations, confusion_points, courses, wk>>

\* The JSON response is sent and the thread is free again.
ChatRespond ==
    /\ chat.pc = "done"
    /\ chat' = IdleChat
    /\ UNCHANGED <<now, active_sessions, conversations, confusion_points, courses, wk>>

\* ------------------------------------------------------------------ sweeps
\* A request is served by the first free thread.
FirstFree(w) ==
    /\ wk[w].pc = "idle"
    /\ Busy < MaxBusy
    /\ \A v \in Workers : v < w => wk[v].pc # "idle"

\* The for loop of analyze_expired_sessions moves to its next session, or ends:
\* run_periodic_analysis then returns None.
NextIteration(r) ==
    IF r.idx < Len(r.expired_sessions)
    THEN [r EXCEPT !.pc = "check", !.idx = r.idx + 1,
                   !.session_id = r.expired_sessions[r.idx + 1]]
    ELSE [r EXCEPT !.pc = "done", !.session_id = "", !.ret = None]

\* An except clause that would leave the loop.
LoopExceptionAborts(r) == [r EXCEPT !.pc = "done", !.session_id = "", !.ret = None]

\* classifier.py:60-61: the except clause of the loop body prints and the loop
\* goes on.
LoopException(r) == NextIteration(r)

\* GET /admin/run-analysis: run_periodic_analysis -> analyze_expired_sessions ->
\* get_expired_sessions up to the start of its iteration over the dict.
SweepStart(w) ==
    /\ FirstFree(w)
    /\ wk' = [wk EXCEPT ![w] = [IdleWorker EXCEPT
                 !.pc = "scan", !.kind = "sweep", !.current_time = now,
                 !.di_used = Used(active_sessions), !.di_len = Used(active_sessions),
                 !.di_pos = 1]]
    /\ UNCHANGED <<now, active_sessions, conversations, confusion_points, courses, chat>>

\* A dict iterator that finds the dict's size changed, or finds an entry when
\* it has none left to give, raises RuntimeError: nothing in classifier.py
\* catches it, and admin_run_analysis answers success False.
ScanRaise(r) ==
    [IdleWorker EXCEPT !.pc = "done", !.kind = "sweep", !.raised = TRUE]

\* One turn of the loop in get_expired_sessions (lines 30-32), or its end.
ScanStep(w) ==
    LET r == wk[w]
        d == active_sessions
        rest == {i \in Live(d) : i >= r.di_pos}
    IN
    /\ r.pc = "scan"
    /\ wk' = [wk EXCEPT ![w] =
         IF r.di_used # Used(d) THEN ScanRaise(r)
         ELSE IF rest = {} THEN
              NextIteration([r EXCEPT !.di_used = 0, !.di_len = 0, !.di_pos = 0, !.idx = 0])
         ELSE IF r.di_len = 0 THEN ScanRaise(r)
         ELSE LET i == CHOOSE j \in rest : \A k \in rest : j <= k
              IN [r EXCEPT !.di_pos = i + 1, !.di_len = r.di_len - 1,
                           !.expired_sessions =
                               IF IsExpired(r.current_time, d[i].ts)
                               THEN Append(r.expired_sessions, d[i].sid)
                               ELSE r.expired_sessions]]
    /\ UNCHANGED <<now, active_sessions, conversations, confusion_points, courses, chat>>

\* ---------------------------------------------------- analyze_single_session
\* The completion call is reached whatever the catalog holds.
ReachesCompletionAnyCatalog(cv, cs, session_id, db) ==
    /\ db # "load_raises"
    /\ get_session_conversations(cv, session_id) # <<>>

\* classifier.py:66-80: whether the completion call is reached: the session
\* has conversations and there are courses, and neither read raised.
ReachesCompletion(cv, cs, session_id, db) ==
    /\ db # "load_raises"
    /\ get_session_conversations(cv, session_id) # <<>>
    /\ cs # {}

\* analyze_single_session returns b to force_analyze_session, which returns
\* its dict (lines 122-126).
ForceReturn(r, b) == [r EXCEPT !.pc = "done", !.result = b, !.ret = Some(b)]

\* analyze_single_session returns b to the sweep (lines 50-58).
SweepReturn(r, b) ==
    [r EXCEPT !.result = b,
              !.counts = IF b = "True" THEN <<r.counts[1] + 1, r.counts[2]>>
                         ELSE <<r.counts[1], r.counts[2] + 1>>]

\* classifier.py:46-58 for the loop's session, up to the completion call:
\* the repository check, then analyze_single_session's reads.  A session that
\* needs no analysis, or whose analysis returns False before the completion
\* call, is marked and the loop goes on.
Check(w, db) ==
    LET r == [wk[w] EXCEPT !.handled = Append(wk[w].handled, wk[w].session_id),
                           !.result = "None", !.completion = NoCompletion,
                           !.response = "none",
                           !.analysis_result = EmptyAnalysis, !.insert = "none"]
    IN
    /\ wk[w].pc = "check"
    /\ IF db = "check_raises"
       THEN /\ wk' = [wk EXCEPT ![w] = LoopException(r)]
            /\ UNCHANGED active_sessions
       ELSE IF ~check_session_needs_analysis(confusion_points, r.session_id)
       THEN /\ active_sessions' = mark_session_analyzed(active_sessions, r.session_id)
            /\ wk' = [wk EXCEPT ![w] = NextIteration(r)]
       ELSE IF ~ReachesCompletion(conversations, courses, r.session_id, db)
       THEN /\ active_sessions' = mark_session_analyzed(active_sessions, r.session_id)
            /\ wk' = [wk EXCEPT ![w] = NextIteration(SweepReturn(r, "False"))]
       ELSE /\ wk' = [wk EXCEPT ![w] = [r EXCEPT !.pc = "llm"]]
            /\ UNCHANGED active_sessions
    /\ UNCHANGED <<now, conversations, confusion_points, courses, chat>>

\* GET /admin/analyze-session/<session_id>: force_analyze_session, up to the
\* completion call.
ForceStart(w, session_id, db) ==
    LET r == [IdleWorker EXCEPT !.kind = "force", !.session_id = session_id] IN
    /\ FirstFree(w)
    /\ db # "check_raises"
    /\ Len(confusion_points) < MaxRecords
    /\ wk' = [wk EXCEPT ![w] =
         IF ReachesCompletion(conversations, courses, session_id, db)
         THEN [r EXCEPT !.pc = "llm"]
         ELSE ForceReturn(r, "False")]
    /\ UNCHANGED <<now, active_sessions, conversations, confusion_points, courses, chat>>

\* classifier.py:83-116: the completion call and what follows it.  The row is
\* saved and True returned; an INSERT that raises is caught and False
\* returned.  The sweep then marks the session and goes on (lines 52-58).
Classify(w, completion, db) ==
    LET r == [wk[w] EXCEPT !.completion = completion,
                           !.response = ResponseKind(completion),
                           !.analysis_result = analyze_session_confusion(completion),
                           !.insert = IF db = "raise" THEN "raised" ELSE "ok"]
        row == AnalysisRow(r.analysis_result)
        b == IF db = "raise" THEN "False" ELSE "True"
    IN
    /\ r.pc = "llm"
    /\ confusion_points' =
         IF db = "raise" THEN confusion_points
         ELSE save_confusion_analysis(confusion_points, r.session_id, row.course_id,
                  row.unit, row.topics, row.confused_conversation_ids, now)
    /\ IF r.kind = "sweep"
       THEN /\ active_sessions' = mark_session_analyzed(active_sessions, r.session_id)
            /\ wk' = [wk EXCEPT ![w] = NextIteration(SweepReturn(r, b))]
       ELSE /\ wk' = [wk EXCEPT ![w] = ForceReturn(r, b)]
            /\ UNCHANGED active_sessions
    /\ UNCHANGED <<now, conversations, courses, chat>>

\* The handler's response is sent and the thread is free again.
Respond(w) ==
    /\ wk[w].pc = "done"
    /\ wk' = [wk EXCEPT ![w] = IdleWorker]
    /\ UNCHANGED <<now, active_sessions, conversations, confusion_points, courses, chat>>

\* ---------------------------------------------------------- specifications
DbOutcomes == {"ok", "raise"}
ReadOutcomes == {"ok", "check_raises", "load_raises"}
Messages == {"", " ", "hi"}

\* The threaded server: handlers interleave at every step.  The repository
\* answers every call.
Next ==
    \/ Tick
    \/ AddCourse
    \/ \E m \in Messages, s \in Sessions \cup {""}, db \in {"ok"} : ChatRequest(m, s, db)
    \/ ChatTouch
    \/ ChatRespond
    \/ \E w \in Workers : SweepStart(w)
    \/ \E w \in Workers : ScanStep(w)
    \/ \E w \in Workers, db \in {"ok"} : Check(w, db)
    \/ \E w \in Workers, s \in Sessions, db \in {"ok"} : ForceStart(w, s, db)
    \/ \E w \in Workers, c \in Completions, db \in {"ok"} : Classify(w, c, db)
    \/ \E w \in Workers : Respond(w)

Spec == Init /\ [][Next]_vars

\* The same handlers served one request at a time: a request is taken only
\* when no other is being served.  A repository call may raise.
SeqNext ==
    \/ Tick
    \/ AddCourse
    \/ \E m \in Messages, s \in Sessions \cup {""}, db \in DbOutcomes :
           Quiescent /\ ChatRequest(m, s, db)
    \/ ChatTouch
    \/ ChatRespond
    \/ \E w \in Workers : Quiescent /\ SweepStart(w)
    \/ \E w \in Workers : ScanStep(w)
    \/ \E w \in Workers, db \in ReadOutcomes : Check(w, db)
    \/ \E w \in Workers, s \in Sessions, db \in ReadOutcomes : Quiescent /\ ForceStart(w, s, db)
    \/ \E w \in Workers, c \in Completions, db \in DbOutcomes : Classify(w, c, db)
    \/ \E w \in Workers : Respond(w)

SeqSpec == Init /\ [][SeqNext]_vars

\* The serialized server with the scheduling the sweep's contract assumes:
\* every handler that was started runs to its response, and the periodic
\* analysis is requested again and again.
FairSpec ==
    /\ SeqSpec
    /\ WF_vars(ChatTouch)
    /\ WF_vars(ChatRespond)
    /\ WF_vars(\E w \in Workers : ScanStep(w))
    /\ WF_vars(\E w \in Workers, db \in ReadOutcomes : Check(w, db))
    /\ WF_vars(\E w \in Workers, c \in Completions, db \in DbOutcomes : Classify(w, c, db))
    /\ WF_vars(\E w \in Workers : Respond(w))
    /\ SF_vars(\E w \in Workers : Quiescent /\ SweepStart(w))

\* ------------------------------------------------------ the tracker alone
\* Times the clock can show.
Times == {t \in 0..MaxTime : t % 900 = 0}

\* The dicts that touches alone build: each session at most once, in any
\* order of insertion, with no deleted slot.
TouchedDicts(t) ==
    {d \in UNION {[1..n -> [sid : Sessions, ts : {u \in Times : u <= t}]] :
                    n \in 0..Cardinality(Sessions)} :
        \A i, j \in DOMAIN d : d[i].sid = d[j].sid => i = j}

TrackerInit ==
    /\ now \in Times
    /\ active_sessions \in TouchedDicts(now)
    /\ conversations = <<>>
    /\ confusion_points = <<>>
    /\ courses = {}
    /\ chat = IdleChat
    /\ wk = [w \in Workers |-> IdleWorker]

\* A call of mark_session_analyzed(session_id) on its own.  result tells the
\* branch taken at line 38.
MarkSessionAnalyzed(w, session_id) ==
    /\ FirstFree(w)
    /\ active_sessions' = mark_session_analyzed(active_sessions, session_id)
    /\ wk' = [wk EXCEPT ![w] = [IdleWorker EXCEPT
                 !.pc = "done", !.kind = "clear", !.session_id = session_id,
                 !.result = IF session_id \in Keys(active_sessions) THEN "True" ELSE "False"]]
    /\ UNCHANGED <<now, conversations, confusion_points, courses, chat>>

TrackerNext ==
    \/ \E w \in Workers, s \in Sessions : Quiescent /\ MarkSessionAnalyzed(w, s)
    \/ \E w \in Workers : Respond(w)

TrackerSpec == TrackerInit /\ [][TrackerNext]_vars

\* ------------------------------------------------- the review query alone
\* Rows that analyze_single_session saves (lines 85-112): the four columns of
\* a result that names a course, or the row of one that names none.
SavedAnalyses ==
    {[course_id |-> Some(1), unit |-> Some("Unit 1"), topics |-> <<"loops">>,
      confused_conversation_ids |-> <<1>>],
     [course_id |-> Some(1), unit |-> Some("Unit 1"), topics |-> <<"recursion">>,
      confused_conversation_ids |-> <<1>>],
     [course_id |-> Some(1), unit |-> Some("Unit 2"), topics |-> <<"pointers", "caf<e9>">>,
      confused_conversation_ids |-> <<1>>],
     [course_id |-> Some(2), unit |-> Some("Unit 1"), topics |-> <<"loops">>,
      confused_conversation_ids |-> <<1>>],
     EmptyAnalysis}

\* The confusion_points table after n saves at times that do not decrease.
RECURSIVE SavedTable(_, _, _)
SavedTable(ss, as, ts) ==
    IF ss = <<>> THEN <<>>
    ELSE LET n == Len(ss)
             a == as[n]
         IN save_confusion_analysis(
                SavedTable(SubSeq(ss, 1, n - 1), SubSeq(as, 1, n - 1), SubSeq(ts, 1, n - 1)),
                ss[n], a.course_id, a.unit, a.topics, a.confused_conversation_ids, ts[n])

ConfusionTables ==
    UNION {{SavedTable(ss, as, ts) :
               ss \in [1..n -> Sessions], as \in [1..n -> SavedAnalyses],
               ts \in {t \in [1..n -> Times] : \A i, j \in 1..n : i < j => t[i] <= t[j]}} :
           n \in 0..MaxRows}

QueryInit ==
    /\ now = MaxTime
    /\ active_sessions = <<>>
    /\ conversations = <<>>
    /\ confusion_points \in ConfusionTables
    /\ courses = {}
    /\ chat = IdleChat
    /\ wk = [w \in Workers |-> IdleWorker]

QueryCourses == {None, Some(1), Some(2)}
QueryUnits == {None, Some("Unit 1")}
QueryTopics == {<<>>, <<"loops">>, <<"loops", "recursion">>, <<"LOOPS">>, <<"%">>, <<"caf<e9>">>}

\* A call of get_confusion_sessions on its own: the arguments and the list
\* returned.
GetConfusionSessions(w, course_id, unit, topics) ==
    /\ FirstFree(w)
    /\ \E list \in get_confusion_sessions(confusion_points, course_id, unit, topics) :
          wk' = [wk EXCEPT ![w] = [IdleWorker EXCEPT
                    !.pc = "done", !.kind = "query",
                    !.query = [course_id |-> course_id, unit |-> unit, topics |-> topics],
                    !.sessions = list]]
    /\ UNCHANGED <<now, active_sessions, conversations, confusion_points, courses, chat>>

QueryNext ==
    \/ \E w \in Workers, c \in QueryCourses, u \in QueryUnits, t \in QueryTopics :
           Quiescent /\ GetConfusionSessions(w, c, u, t)
    \/ \E w \in Workers : Respond(w)

QuerySpec == QueryInit /\ [][QueryNext]_vars

\* --------------------------------------------- the conversation list alone
\* The conversations table after n saves at times that do not decrease.
RECURSIVE SavedConversations(_, _)
SavedConversations(ss, ts) ==
    IF ss = <<>> THEN <<>>
    ELSE LET n == Len(ss)
         IN save_conversation(SavedConversations(SubSeq(ss, 1, n - 1), SubSeq(ts, 1, n - 1)),
                              ss[n], ts[n])

ConversationTables ==
    UNION {{SavedConversations(ss, ts) :
               ss \in [1..n -> Sessions],
               ts \in {t \in [1..n -> Times] : \A i, j \in 1..n : i < j => t[i] <= t[j]}} :
           n \in 0..(MaxRows + 1)}

ListInit ==
    /\ now = MaxTime
    /\ active_sessions = <<>>
    /\ conversations \in ConversationTables
    /\ confusion_points = <<>>
    /\ courses = {}
    /\ chat = IdleChat
    /\ wk = [w \in Workers |-> IdleWorker]

\* A call of get_session_conversations on its own: ret is the list returned.
GetSessionConversations(w, session_id) ==
    /\ FirstFree(w)
    /\ wk' = [wk EXCEPT ![w] = [IdleWorker EXCEPT
                 !.pc = "done", !.kind = "list", !.session_id = session_id,
                 !.ret = Some(get_session_conversations(conversations, session_id))]]
    /\ UNCHANGED <<now, active_sessions, conversations, confusion_points, courses, chat>>

ListNext ==
    \/ \E w \in Workers, s \in Sessions : Quiescent /\ GetSessionConversations(w, s)
    \/ \E w \in Workers : Respond(w)

ListSpec == ListInit /\ [][ListNext]_vars

\* ------------------------------------------------- classification alone
\* Further answers of the completion service: an object that holds only a
\* course_id, and one whose course_id is the number 0.
JsonCourseOnly ==
    [fields |-> {"course_id"}, course_id |-> Some(1), unit |-> None,
     topics |-> <<>>, confused_conversation_ids |-> <<>>]
JsonCourseZero ==
    [fields |-> AnalysisFields, course_id |-> Some(0), unit |-> Some("Unit 1"),
     topics |-> <<"pointers">>, confused_conversation_ids |-> <<1>>]

AllCompletions ==
    Completions \cup
    {[transport |-> "ok", wrap |-> "fence", body |-> JsonCourseOnly],
     [transport |-> "ok", wrap |-> "bare", body |-> JsonCourseZero]}

\* Every session has a conversation and the catalog a course.
ClassifyInit ==
    /\ now = 0
    /\ active_sessions = <<>>
    /\ conversations = SavedConversations(<<"s1", "s2">>, <<0, 0>>)
    /\ confusion_points = <<>>
    /\ courses = {1}
    /\ chat = IdleChat
    /\ wk = [w \in Workers |-> IdleWorker]

\* Forced classifications, one at a time, with any answer of the service.
ClassifyNext ==
    \/ \E w \in Workers, s \in Sessions : Quiescent /\ ForceStart(w, s, "ok")
    \/ \E w \in Workers, c \in AllCompletions, db \in DbOutcomes : Classify(w, c, db)
    \/ \E w \in Workers : Respond(w)

ClassifySpec == ClassifyInit /\ [][ClassifyNext]_vars

\* ------------------------------------------------------- synthesis alone
\* What get_all_session_data hands to generate_review_content for a session:
\* no confusion record, a record with a topic list, or a record whose topics
\* column holds the JSON text null.
SessionAnalyses ==
    {None,
     Some([topics |-> Some(<<"loops">>), confused_conversation_ids |-> <<>>]),
     Some([topics |-> None, confused_conversation_ids |-> <<>>])}

\* Lists of distinct sessions, each with its confusion_analysis.
SessionDataLists ==
    {<<>>}
    \cup {<<[session_id |-> s, conversations |-> <<>>, confusion_analysis |-> a]>> :
             s \in Sessions, a \in SessionAnalyses}
    \cup {<<[session_id |-> p[1], conversations |-> <<>>, confusion_analysis |-> a],
            [session_id |-> p[2], conversations |-> <<>>, confusion_analysis |-> b]>> :
             p \in {q \in Sessions \X Sessions : q[1] # q[2]},
             a \in SessionAnalyses, b \in SessionAnalyses}

\* llm_service.py:272-287: ', '.join(topics) raises on a topics value that is
\* not a list.
ContextRaises(session_data) ==
    \E i \in DOMAIN session_data :
        /\ session_data[i].confusion_analysis # None
        /\ session_data[i].confusion_analysis[1].topics = None

\* A context that would show every conversation of a session.
FlaggedAll(session, conv) == TRUE

\* llm_service.py:281-283: the conversation is shown when the session has an
\* analysis and the conversation's id is among its confused ids.
Flagged(session, conv) ==
    /\ session.confusion_analysis # None
    /\ \E k \in DOMAIN session.confusion_analysis[1].confused_conversation_ids :
          session.confusion_analysis[1].confused_conversation_ids[k] = conv.id

\* llm_service.py:272-287: the context, session by session: whether the
\* Topics and Unit lines are written, and the ids of the conversations shown,
\* in the order of the session's list.
ReviewContext(session_data) ==
    [k \in DOMAIN session_data |->
        LET session == session_data[k]
            shown == SelectSeq(session.conversations, LAMBDA conv : Flagged(session, conv))
        IN [session_id |-> session.session_id,
            analysed |-> session.confusion_analysis # None,
            confused |-> [i \in DOMAIN shown |-> shown[i].id]]]

\* JSON values the completion service can answer the review_generation prompt
\* with: objects with both keys, with one, with none, with questions null,
\* and an array.
ReviewFull ==
    [kind |-> "object", fields |-> {"summary", "questions"}, summary |-> "Review of loops",
     questions |-> Some(<<[question |-> "What does a loop do?", type |-> "conceptual",
                           hint |-> "Think of repetition."]>>)]
ReviewNoQuestions == [ReviewFull EXCEPT !.fields = {"summary"}, !.questions = None]
ReviewNullQuestions == [ReviewFull EXCEPT !.questions = None]
ReviewEmpty == [ReviewFull EXCEPT !.fields = {}, !.summary = "", !.questions = None]
ReviewArray == [ReviewEmpty EXCEPT !.kind = "array"]

\* A fence that is never closed loses the last character of the text
\* (find returns -1), here the closing brace: json.loads raises on it as on
\* prose.
ReviewCompletions ==
    {[transport |-> "error", wrap |-> "prose", body |-> ReviewEmpty],
     [transport |-> "ok", wrap |-> "prose", body |-> ReviewEmpty],
     [transport |-> "ok", wrap |-> "unclosed", body |-> ReviewFull],
     [transport |-> "ok", wrap |-> "fence", body |-> ReviewFull],
     [transport |-> "ok", wrap |-> "bare", body |-> ReviewFull],
     [transport |-> "ok", wrap |-> "fence", body |-> ReviewNoQuestions],
     [transport |-> "ok", wrap |-> "bare", body |-> ReviewNullQuestions],
     [transport |-> "ok", wrap |-> "bare", body |-> ReviewEmpty],
     [transport |-> "ok", wrap |-> "fence", body |-> ReviewArray]}

\* llm_service.py:323-332
ReviewFallback ==
    [kind |-> "object", fields |-> {"summary", "questions"},
     summary |-> "Unable to generate review content at this time.",
     questions |-> Some(<<[question |-> "Please review your course materials and try again later.",
                           type |-> "general",
                           hint |-> "Check back when the system is available."]>>)]

\* generate_review_content: the value json.loads returns is returned as it
\* is; every exception ends in the fallback.
generate_review_content(session_data, completion) ==
    IF ContextRaises(session_data) \/ completion.transport = "error"
       \/ JsonLoads(completion) = None
    THEN ReviewFallback
    ELSE JsonLoads(completion)[1]

\* A call of generate_review_content on its own: ret is the value returned.
\* The completion is asked for only when the context was built.
GenerateReviewContent(w, session_data, completion) ==
    /\ FirstFree(w)
    /\ wk' = [wk EXCEPT ![w] = [IdleWorker EXCEPT
                 !.pc = "done", !.kind = "review", !.session_data = session_data,
                 !.context = IF ContextRaises(session_data) THEN None
                             ELSE Some(ReviewContext(session_data)),
                 !.completion = IF ContextRaises(session_data) THEN NoCompletion
                                ELSE completion,
                 !.ret = Some(generate_review_content(session_data, completion))]]
    /\ UNCHANGED <<now, active_sessions, conversations, confusion_points, courses, chat>>

ReviewNext ==
    \/ \E w \in Workers, sd \in SessionDataLists, c \in ReviewCompletions :
          Quiescent /\ GenerateReviewContent(w, sd, c)
    \/ \E w \in Workers : Respond(w)

ReviewSpec == Init /\ [][ReviewNext]_vars

\* --------------------------------------------------------- grading alone
GradeFields == {"score_percentage", "score_category", "feedback", "overall_assessment"}
FeedbackFields == {"strengths", "areas_for_improvement", "suggestions", "encouragement"}

\* A feedback value of the answer: an object holding the sub-fields named,
\* or a string.
Feedback(fs) == [kind |-> "object", items |-> [f \in fs |-> "well done"]]
FeedbackString == [kind |-> "string", items |-> <<>>]

\* A JSON object holding the top-level keys named, with the feedback given.
Grading(fs, feedback) ==
    [kind |-> "object", fields |-> fs, score_percentage |-> 90,
     score_category |-> "Excellent", feedback |-> feedback,
     overall_assessment |-> "Correct and complete"]

\* The top-level keys an answer holds: all four, all but one, or none.
GradeFieldSets == {GradeFields} \cup {GradeFields \ {f} : f \in GradeFields} \cup {{}}

\* What the completion service can answer the answer_grading prompt with.
GradeCompletions ==
    {[transport |-> "error", wrap |-> "prose", body |-> Grading({}, FeedbackString)],
     [transport |-> "ok", wrap |-> "prose", body |-> Grading({}, FeedbackString)],
     [transport |-> "ok", wrap |-> "unclosed", body |-> Grading(GradeFields, Feedback(FeedbackFields))],
     [transport |-> "ok", wrap |-> "fence", body |-> Grading(GradeFields, Feedback(FeedbackFields))],
     [transport |-> "ok", wrap |-> "fence", body |-> Grading(GradeFields, FeedbackString)],
     [transport |-> "ok", wrap |-> "fence",
      body |-> [Grading({}, FeedbackString) EXCEPT !.kind = "array"]]}
    \cup {[transport |-> "ok", wrap |-> "bare", body |-> Grading(fs, Feedback(sub))] :
             fs \in GradeFieldSets, sub \in SUBSET FeedbackFields}

\* llm_service.py:397-410
GradeFallback ==
    [kind |-> "object", fields |-> GradeFields, score_percentage |-> 75,
     score_category |-> "Good",
     feedback |-> [kind |-> "object", items |->
        [f \in FeedbackFields |->
           CASE f = "strengths" -> "Thank you for providing an answer."
             [] f = "areas_for_improvement" -> "We encountered an issue evaluating your response."
             [] f = "suggestions" -> "Please try submitting your answer again."
             [] OTHER -> "Keep up the good work! Practice makes perfect."]],
     overall_assessment |-> "Answer submitted successfully"]

\* A feedback object returned as the completion gave it.
FeedbackAsGiven(items) == items

\* llm_service.py:390-393: a sub-field the feedback does not hold is set to "".
DefaultFeedback(items) ==
    [f \in FeedbackFields \cup DOMAIN items |->
        IF f \in DOMAIN items THEN items[f] ELSE ""]

\* grade_student_answer: a parsed value without one of the four keys (an
\* array holds none), or whose feedback is no object, raises; every exception
\* ends in the fallback.
grade_student_answer(completion) ==
    IF completion.transport = "error" \/ JsonLoads(completion) = None
    THEN GradeFallback
    ELSE LET g == JsonLoads(completion)[1] IN
         IF g.kind # "object" \/ ~(GradeFields \subseteq g.fields)
         THEN GradeFallback
         ELSE IF g.feedback.kind # "object"
         THEN GradeFallback
         ELSE [g EXCEPT !.feedback.items = DefaultFeedback(g.feedback.items)]

\* A call of grade_student_answer on its own: ret is the value returned.
GradeStudentAnswer(w, completion) ==
    /\ FirstFree(w)
    /\ wk' = [wk EXCEPT ![w] = [IdleWorker EXCEPT
                 !.pc = "done", !.kind = "grade", !.completion = completion,
                 !.ret = Some(grade_student_answer(completion))]]
    /\ UNCHANGED <<now, active_sessions, conversations, confusion_points, courses, chat>>

GradeNext ==
    \/ \E w \in Workers, c \in GradeCompletions : Quiescent /\ GradeStudentAnswer(w, c)
    \/ \E w \in Workers : Respond(w)

GradeSpec == Init /\ [][GradeNext]_vars

\* ------------------------------------------------- review requests alone
\* database.py:249-273: the first row of the session in the table's scan, or
\* None.  The topics handed on are wrapped as generate_review_content reads
\* them.
get_confusion_points_for_session(cp, session_id) ==
    LET rows == {i \in DOMAIN cp : cp[i].session_id = session_id} IN
    IF rows = {} THEN None
    ELSE LET i == CHOOSE r \in rows : \A q \in rows : r <= q
         IN Some([course_id |-> cp[i].course_id, unit |-> cp[i].unit,
                  topics |-> Some(cp[i].topics),
                  confused_conversation_ids |-> cp[i].confused_conversation_ids,
                  created_at |-> cp[i].created_at])

\* database.py:276-290
get_all_session_data(cv, cp, session_ids) ==
    [k \in DOMAIN session_ids |->
        [session_id |-> session_ids[k],
         conversations |-> get_session_conversations(cv, session_ids[k]),
         confusion_analysis |-> get_confusion_points_for_session(cp, session_ids[k])]]

\* The store a review is asked of: s1 has conversations 1 and 2, s2 has
\* conversation 3, and up to MaxRecords analyses were saved.
StoredConversations == SavedConversations(<<"s1", "s1", "s2">>, <<0, 0, 0>>)

StoredTables ==
    UNION {{SavedTable(ss, as, ts) :
               ss \in [1..n -> Sessions], as \in [1..n -> SavedAnalyses],
               ts \in {t \in [1..n -> Times] : \A i, j \in 1..n : i < j => t[i] <= t[j]}} :
           n \in 0..MaxRecords}

StoreInit ==
    /\ now = MaxTime
    /\ active_sessions = <<>>
    /\ conversations = StoredConversations
    /\ confusion_points \in StoredTables
    /\ courses = {1}
    /\ chat = IdleChat
    /\ wk = [w \in Workers |-> IdleWorker]

\* What the completion service can answer the review_request_parsing prompt
\* with.
ParseFields == {"course_id", "unit", "topics"}
ParsedRequest(fs, course_id, unit, topics) ==
    [fields |-> fs, course_id |-> course_id, unit |-> unit, topics |-> topics]

ParseCompletions ==
    {[transport |-> "error", wrap |-> "prose", body |-> ParsedRequest({}, None, None, <<>>)],
     [transport |-> "ok", wrap |-> "prose", body |-> ParsedRequest({}, None, None, <<>>)],
     [transport |-> "ok", wrap |-> "unclosed",
      body |-> ParsedRequest(ParseFields, Some(1), None, <<>>)],
     [transport |-> "ok", wrap |-> "fence",
      body |-> ParsedRequest(ParseFields, Some(1), Some("Unit 1"), <<"loops">>)],
     [transport |-> "ok", wrap |-> "bare",
      body |-> ParsedRequest({"course_id"}, Some(1), None, <<>>)],
     [transport |-> "ok", wrap |-> "bare",
      body |-> ParsedRequest(ParseFields, None, Some("Unit 1"), <<"loops">>)],
     [transport |-> "ok", wrap |-> "bare", body |-> ParsedRequest({}, None, None, <<>>)]}

\* llm_service.py:142-208: every exception ends in the empty request.
parse_review_request(completion) ==
    IF completion.transport = "error" \/ JsonLoads(completion) = None
    THEN NoQuery
    ELSE LET obj == JsonLoads(completion)[1]
         IN [course_id |-> Get(obj, "course_id", None),
             unit |-> Get(obj, "unit", None),
             topics |-> Get(obj, "topics", <<>>)]

\* The results of generate_review_from_request (review_generator.py:27-69).
NotUnderstood ==
    [success |-> FALSE,
     message |-> "Could not understand which course you want to review. Please specify a course name or topic.",
     content |-> None]
NothingFound ==
    [success |-> FALSE,
     message |-> "No confusion points found for the requested topic. Try having some conversations first!",
     content |-> None]
RequestError ==
    [success |-> FALSE, message |-> "Error generating review: ", content |-> None]
Reviewed(content) == [success |-> TRUE, message |-> "", content |-> Some(content)]

\* A request that would be carried on with the course its parse did not find.
RejectsNothing(parsed) == FALSE

\* review_generator.py:27
RejectsRequest(parsed) == ~Truthy(parsed.course_id)

\* POST /api/review/request: generate_review_from_request.  db says whether
\* get_courses raises; parse and synthesis are the answers the completion
\* service would give to the two prompts.  completion and synthesis hold the
\* answers of the calls that were made, queried whether get_confusion_sessions
\* was called.
GenerateReviewFromRequest(w, db, parse, synthesis) ==
    LET parsed == parse_review_request(parse)
        r == [IdleWorker EXCEPT !.pc = "done", !.kind = "request"]
    IN
    /\ FirstFree(w)
    /\ IF db = "raise"
       THEN wk' = [wk EXCEPT ![w] = [r EXCEPT !.ret = Some(RequestError)]]
       ELSE IF RejectsRequest(parsed)
       THEN wk' = [wk EXCEPT ![w] = [r EXCEPT !.completion = parse, !.query = parsed,
                                               !.ret = Some(NotUnderstood)]]
       ELSE \E ids \in get_confusion_sessions(confusion_points, parsed.course_id,
                                              parsed.unit, parsed.topics) :
              LET sd == get_all_session_data(conversations, confusion_points, ids)
                  q == [r EXCEPT !.completion = parse, !.query = parsed,
                                 !.queried = TRUE, !.sessions = ids]
              IN wk' = [wk EXCEPT ![w] =
                   IF ids = <<>>
                   THEN [q EXCEPT !.ret = Some(NothingFound)]
                   ELSE [q EXCEPT !.session_data = sd,
                                  !.synthesis = IF ContextRaises(sd) THEN NoCompletion
                                                ELSE synthesis,
                                  !.ret = Some(Reviewed(generate_review_content(sd, synthesis)))]]
    /\ UNCHANGED <<now, active_sessions, conversations, confusion_points, courses, chat>>

RequestNext ==
    \/ \E w \in Workers, db \in DbOutcomes, p \in ParseCompletions, c \in ReviewCompletions :
          Quiescent /\ GenerateReviewFromRequest(w, db, p, c)
    \/ \E w \in Workers : Respond(w)

RequestSpec == StoreInit /\ [][RequestNext]_vars

\* ------------------------------------------- synthesis over a store alone
\* Lists of distinct session ids.
SessionIdLists ==
    {<<>>} \cup {<<s>> : s \in Sessions}
    \cup {<<p[1], p[2]>> : p \in {q \in Sessions \X Sessions : q[1] # q[2]}}

\* generate_review_content on the data get_all_session_data returns for any
\* list of sessions.
ContextNext ==
    \/ \E w \in Workers, ids \in SessionIdLists, c \in ReviewCompletions :
          /\ Quiescent
          /\ GenerateReviewContent(w,
                 get_all_session_data(conversations, confusion_points, ids), c)
    \/ \E w \in Workers : Respond(w)

ContextSpec == StoreInit /\ [][ContextNext]_vars

\* --------------------------------------------------------- summary alone
\* review_generator.py:231-244: the loop over the session data, which adds up
\* the confused ids and collects the topics and units of the sessions that
\* have an analysis.  sorted(list(set)) is kept as the set.
RECURSIVE CountConfused(_)
CountConfused(session_data) ==
    IF session_data = <<>> THEN 0
    ELSE LET n == Len(session_data)
             a == session_data[n].confusion_analysis
         IN CountConfused(SubSeq(session_data, 1, n - 1))
            + (IF a = None THEN 0 ELSE Len(a[1].confused_conversation_ids))

ConfusionTopics(session_data) ==
    UNION {{session_data[k].confusion_analysis[1].topics[1][i] :
              i \in DOMAIN session_data[k].confusion_analysis[1].topics[1]} :
           k \in {j \in DOMAIN session_data : session_data[j].confusion_analysis # None}}

ConfusionUnits(session_data) ==
    {session_data[k].confusion_analysis[1].unit[1] :
       k \in {j \in DOMAIN session_data :
                /\ session_data[j].confusion_analysis # None
                /\ TruthyStr(session_data[j].confusion_analysis[1].unit)}}

\* The results of generate_review_summary: fields are the keys the dict
\* holds besides success.
SummaryNothing ==
    [success |-> TRUE, fields |-> {"summary", "session_count", "confusion_count"},
     session_count |-> 0, confusion_count |-> 0,
     topics_with_confusion |-> {}, units_with_confusion |-> {}]
SummaryError == [SummaryNothing EXCEPT !.success = FALSE, !.fields = {"message"}]
SummaryOf(ids, session_data) ==
    [success |-> TRUE,
     fields |-> {"summary", "session_count", "confusion_count",
                 "topics_with_confusion", "units_with_confusion"},
     session_count |-> Len(ids), confusion_count |-> CountConfused(session_data),
     topics_with_confusion |-> ConfusionTopics(session_data),
     units_with_confusion |-> ConfusionUnits(session_data)]

\* generate_review_summary (review_generator.py:200-260).  db says whether
\* the repository raises.
GenerateReviewSummary(w, db, course_id, unit, topics) ==
    LET r == [IdleWorker EXCEPT !.pc = "done", !.kind = "summary",
                !.query = [course_id |-> course_id, unit |-> unit, topics |-> topics]]
    IN
    /\ FirstFree(w)
    /\ IF db = "raise"
       THEN wk' = [wk EXCEPT ![w] = [r EXCEPT !.ret = Some(SummaryError)]]
       ELSE \E ids \in get_confusion_sessions(confusion_points, course_id, unit, topics) :
              LET sd == get_all_session_data(conversations, confusion_points, ids)
                  q == [r EXCEPT !.queried = TRUE, !.sessions = ids]
              IN wk' = [wk EXCEPT ![w] =
                   IF ids = <<>>
                   THEN [q EXCEPT !.ret = Some(SummaryNothing)]
                   ELSE [q EXCEPT !.session_data = sd, !.ret = Some(SummaryOf(ids, sd))]]
    /\ UNCHANGED <<now, active_sessions, conversations, confusion_points, courses, chat>>

SummaryNext ==
    \/ \E w \in Workers, db \in DbOutcomes,
          c \in QueryCourses, u \in QueryUnits, t \in QueryTopics :
          Quiescent /\ GenerateReviewSummary(w, db, c, u, t)
    \/ \E w \in Workers : Respond(w)

SummarySpec == StoreInit /\ [][SummaryNext]_vars

\* ------------------------------------------------ review by criteria alone
\* The results of generate_review_by_criteria (review_generator.py:74-138).
CourseNotFound == [success |-> FALSE, message |-> "Course with ID not found", content |-> None]
NoConfusionPoints ==
    [success |-> FALSE, message |-> "No confusion points found", content |-> None]

\* database.py:87-107: the course of the id, if the catalog holds it.
get_course_by_id(cs, course_id) ==
    IF course_id # None /\ course_id[1] \in cs THEN course_id ELSE None

\* GET /api/review/<course_id>/<topic> and the other callers of
\* generate_review_by_criteria: the course is looked up, the sessions are
\* selected, their data collected and the review generated.
GenerateReviewByCriteria(w, course_id, unit, topics, synthesis) ==
    LET r == [IdleWorker EXCEPT !.pc = "done", !.kind = "criteria",
                !.query = [course_id |-> course_id, unit |-> unit, topics |-> topics]]
    IN
    /\ FirstFree(w)
    /\ IF get_course_by_id(courses, course_id) = None
       THEN wk' = [wk EXCEPT ![w] = [r EXCEPT !.ret = Some(CourseNotFound)]]
       ELSE \E ids \in get_confusion_sessions(confusion_points, course_id, unit, topics) :
              LET sd == get_all_session_data(conversations, confusion_points, ids)
                  q == [r EXCEPT !.queried = TRUE, !.sessions = ids]
              IN wk' = [wk EXCEPT ![w] =
                   IF ids = <<>>
                   THEN [q EXCEPT !.ret = Some(NoConfusionPoints)]
                   ELSE [q EXCEPT !.session_data = sd,
                                  !.context = IF ContextRaises(sd) THEN None
                                              ELSE Some(ReviewContext(sd)),
                                  !.synthesis = IF ContextRaises(sd) THEN NoCompletion
                                                ELSE synthesis,
                                  !.ret = Some(Reviewed(generate_review_content(sd, synthesis)))]]
    /\ UNCHANGED <<now, active_sessions, conversations, confusion_points, courses, chat>>

CriteriaNext ==
    \/ \E w \in Workers, c \in QueryCourses, u \in QueryUnits, t \in QueryTopics,
          a \in ReviewCompletions :
          Quiescent /\ GenerateReviewByCriteria(w, c, u, t, a)
    \/ \E w \in Workers : Respond(w)

CriteriaSpec == StoreInit /\ [][CriteriaNext]_vars

\* ------------------------------------------------------------------ claims
\* A step of worker w that ends its completion call: analyze_single_session
\* goes from the call to its return.
ClassifyStep(w) == wk[w].pc = "llm" /\ wk'[w].pc # "llm"

\* A step of sweep w that handles its loop's session up to the completion call.
CheckStep(w) == wk[w].kind = "sweep" /\ wk[w].pc = "check" /\ wk'[w] # wk[w]

\* C1: after any number of classify calls (by a sweep or forced), the store
\* holds at most one confusion record per session.
C1_AtMostOneRecordPerSession ==
    \A s \in Sessions : Cardinality(RecordsOf(confusion_points, s)) <= 1

\* C2: a classification whose completion call failed, or whose response held
\* no JSON object, returns False and writes no confusion record.
C2_FailedCompletionWritesNothing ==
    [][\A w \in Workers :
          (ClassifyStep(w) /\ wk'[w].response \in {"error", "nojson"})
          => (confusion_points' = confusion_points /\ wk'[w].result = "False")]_vars

\* C3: a classification whose completion is well formed and names no course
\* returns True and adds exactly one record, for its session and with no
\* course, unit, topics or flagged conversations (when the INSERT does not
\* raise); and a sweep that later comes to a session whose records name no
\* course makes no completion call for it and adds no record.
C3_NullCoursePersisted ==
    [][\A w \in Workers :
          /\ (ClassifyStep(w) /\ wk'[w].response = "json"
                /\ wk'[w].analysis_result.course_id = None /\ wk'[w].insert = "ok")
             => /\ wk'[w].result = "True"
                /\ Len(confusion_points') = Len(confusion_points) + 1
                /\ SubSeq(confusion_points', 1, Len(confusion_points)) = confusion_points
                /\ LET row == confusion_points'[Len(confusion_points')]
                   IN /\ row.session_id = wk[w].session_id
                      /\ row.course_id = None /\ row.unit = None
                      /\ row.topics = <<>> /\ row.confused_conversation_ids = <<>>
          /\ (CheckStep(w)
                /\ \E i \in RecordsOf(confusion_points, wk[w].session_id) :
                       confusion_points[i].course_id = None)
             => /\ wk'[w].pc # "llm"
                /\ confusion_points' = confusion_points]_vars

\* A sweep that ended having skipped an expired session whose one record,
\* written by an earlier classification, names no course.
C3_Witness ==
    \E w \in Workers :
        /\ wk[w].kind = "sweep" /\ wk[w].pc = "done" /\ wk[w].counts = <<0, 0>>
        /\ Len(wk[w].handled) = 1
        /\ \E i \in DOMAIN confusion_points :
               /\ RecordsOf(confusion_points, wk[w].handled[1]) = {i}
               /\ confusion_points[i].course_id = None

\* C4: a sweep makes a completion call for an expired session, and inserts a
\* record for it, only if the repository check found no record: for a session
\* that has one, its loop body goes on without either.
C4_SweepSkipsAnalyzed ==
    /\ [](\A w \in Workers :
            (wk[w].kind = "sweep" /\ wk[w].pc = "llm")
            => RecordsOf(confusion_points, wk[w].session_id) = {})
    /\ [][\A w \in Workers :
            (CheckStep(w) /\ RecordsOf(confusion_points, wk[w].session_id) # {})
            => (wk'[w].pc # "llm" /\ confusion_points' = confusion_points
                /\ wk'[w].counts = wk[w].counts)]_vars

\* A sweep that ended without classifying anything, having handled a session
\* that has a record.
C4_Witness ==
    \E w \in Workers :
        /\ wk[w].kind = "sweep" /\ wk[w].pc = "done" /\ wk[w].counts = <<0, 0>>
        /\ \E i \in DOMAIN wk[w].handled :
               /\ RecordsOf(confusion_points, wk[w].handled[i]) # {}
               /\ wk[w].handled[i] \notin Keys(active_sessions)

\* C5: in every interleaving of concurrent sweeps and forced classifications
\* over one session, a sweep's insert happens only while the session has no
\* record, so that the concurrent writers never leave a second one.
C5_ConcurrentWritersInsertOnce ==
    [][\A w \in Workers :
          (wk[w].kind = "sweep" /\ ClassifyStep(w) /\ confusion_points' # confusion_points)
          => RecordsOf(confusion_points, wk[w].session_id) = {}]_vars

\* The session has a conversation, no confusion record, and its last
\* conversation is at least the timeout old.
Eligible(s) ==
    /\ get_session_conversations(conversations, s) # <<>>
    /\ RecordsOf(confusion_points, s) = {}
    /\ \A i \in DOMAIN conversations :
          conversations[i].session_id = s => now - conversations[i].created_at >= 1800

\* A sweep is at the session's turn of its loop.
Attempting(s) ==
    \E w \in Workers :
        wk[w].kind = "sweep" /\ wk[w].pc \in {"check", "llm"} /\ wk[w].session_id = s

\* C6: with the periodic analysis run again and again, a session that has a
\* conversation and no confusion record, and stays so, is eventually taken up
\* by a sweep, also after an earlier attempt on it failed and cleared it from
\* the tracker.
C6_EligibleEventuallyAttempted ==
    \A s \in Sessions : Eligible(s) ~> (Attempting(s) \/ ~Eligible(s))

\* A sweep has run to its end: get_expired_sessions returned and the loop
\* went through its list.
SweepEnded(w) == wk[w].kind = "sweep" /\ wk[w].pc = "done" /\ ~wk[w].raised

\* C7: at the end of a sweep none of the sessions that were expired at its
\* start is in the tracker, whatever happened to each of them.
C7_ExpiredRemovedBySweepEnd ==
    \A w \in Workers :
        SweepEnded(w)
        => \A i \in DOMAIN wk[w].expired_sessions :
               wk[w].expired_sessions[i] \notin Keys(active_sessions)

\* C8: a sweep handles every session of its expired list, in order, also
\* after the handling of an earlier one raised or its classification
\* returned False.
C8_FailureDoesNotAbortSweep ==
    \A w \in Workers : SweepEnded(w) => wk[w].handled = wk[w].expired_sessions

\* A sweep that ended having handled two sessions, the first of which raised
\* in the repository check and therefore is still tracked.
C8_Witness ==
    \E w \in Workers :
        /\ SweepEnded(w)
        /\ Len(wk[w].handled) = 2
        /\ wk[w].handled[1] \in Keys(active_sessions)
        /\ wk[w].handled[2] \notin Keys(active_sessions)

\* C9: a sweep returns the pair of the numbers of sessions it classified
\* with success and with failure, <<0, 0>> when no session was expired.
C9_RunReturnsCounts ==
    \A w \in Workers : SweepEnded(w) => wk[w].ret = Some(wk[w].counts)

\* get_expired_sessions of sweep w has just returned: the loop has not yet
\* handled a session.
ScanReturned(w) ==
    /\ wk[w].kind = "sweep" /\ ~wk[w].raised
    /\ wk[w].handled = <<>>
    /\ wk[w].pc \in {"check", "done"}

\* C10: get_expired_sessions returns, without repetition, exactly the tracked
\* session ids whose last activity is at least 1800 s before the time of the
\* call, the boundary included, and no step of it changes the tracker.
C10_ExpiredExactlyTimedOut ==
    /\ [](\A w \in Workers :
            ScanReturned(w)
            => LET e == wk[w].expired_sessions
               IN /\ {e[i] : i \in DOMAIN e}
                       = {s \in Keys(active_sessions) :
                             wk[w].current_time - Lookup(active_sessions, s) >= 1800}
                  /\ \A i, j \in DOMAIN e : e[i] = e[j] => i = j)
    /\ [][\A w \in Workers :
            (wk[w].pc = "scan" /\ wk'[w] # wk[w]) => active_sessions' = active_sessions]_vars

\* A scan that returned a session idle for exactly the timeout and left out
\* a tracked session idle for less.
C10_Witness ==
    \E w \in Workers :
        /\ ScanReturned(w)
        /\ \E i \in DOMAIN wk[w].expired_sessions :
               wk[w].current_time - Lookup(active_sessions, wk[w].expired_sessions[i]) = 1800
        /\ \E s \in Keys(active_sessions) :
               wk[w].current_time - Lookup(active_sessions, s) < 1800

\* C11: a touch leaves the session tracked with the current time as its last
\* activity, whether or not it was tracked before, and leaves every other
\* session's entry as it was; and a scan never returns a session whose last
\* touch is less than 1800 s before the scan, however old its earlier ones.
C11_TouchRefreshesOnlyItsSession ==
    /\ [][(chat.pc = "touch" /\ chat'.pc # "touch")
          => /\ Keys(active_sessions') = Keys(active_sessions) \cup {chat.session_id}
             /\ Lookup(active_sessions', chat.session_id) = now
             /\ \A t \in Keys(active_sessions) \ {chat.session_id} :
                   Lookup(active_sessions', t) = Lookup(active_sessions, t)]_vars
    /\ [](\A w \in Workers :
            ScanReturned(w)
            => \A s \in Keys(active_sessions) :
                   wk[w].current_time - Lookup(active_sessions, s) < 1800
                   => \A i \in DOMAIN wk[w].expired_sessions :
                          wk[w].expired_sessions[i] # s)

\* A scan that left out a session touched again after a first touch that is
\* by now 1800 s old.
C11_Witness ==
    \E w \in Workers :
        /\ ScanReturned(w)
        /\ \E s \in Keys(active_sessions) :
               /\ \A i \in DOMAIN wk[w].expired_sessions : wk[w].expired_sessions[i] # s
               /\ \E i \in DOMAIN conversations :
                      /\ conversations[i].session_id = s
                      /\ wk[w].current_time - conversations[i].created_at >= 1800
                      /\ Lookup(active_sessions, s) > conversations[i].created_at

\* C12: clearing a session raises nothing, takes that session and no other
\* out of the tracker, leaves the other sessions' times as they were, and
\* changes nothing at all when the session is not tracked, as after an
\* earlier clear of it.
C12_ClearIdempotentTotal ==
    [][\A w \in Workers :
          (wk[w].pc = "idle" /\ wk'[w].kind = "clear")
          => LET s == wk'[w].session_id IN
             /\ ~wk'[w].raised
             /\ Keys(active_sessions') = Keys(active_sessions) \ {s}
             /\ \A t \in Keys(active_sessions') :
                   Lookup(active_sessions', t) = Lookup(active_sessions, t)
             /\ s \notin Keys(active_sessions) => active_sessions' = active_sessions]_vars

\* A clear of a session that an earlier clear had already taken out, with
\* another session still tracked.
C12_Witness ==
    \E w \in Workers :
        /\ wk[w].kind = "clear" /\ wk[w].pc = "done" /\ wk[w].result = "False"
        /\ \E i \in DOMAIN active_sessions : active_sessions[i].sid = Dummy
        /\ Keys(active_sessions) # {}

\* C13: the tracker's map is accessed under mutual exclusion, so a scan sees
\* one snapshot of it and never fails because a chat request's touch or
\* another sweep's clear changed the map while the scan was iterating.
C13_ScanNeverFails ==
    \A w \in Workers : ~wk[w].raised

\* The list of sweep or call w as a set.
Returned(w) == {wk[w].sessions[i] : i \in DOMAIN wk[w].sessions}

\* C14: a query for a course returns exactly the sessions of the records
\* whose course is the requested one, whose unit is the requested one when a
\* unit is given, and whose list of topics holds one of the requested topics
\* when topics are given.
C14_QueryReturnsExactMatches ==
    \A w \in Workers :
        (wk[w].kind = "query" /\ wk[w].query.course_id # None)
        => LET q == wk[w].query
           IN Returned(w) =
                {confusion_points[i].session_id : i \in
                   {j \in DOMAIN confusion_points :
                      LET row == confusion_points[j] IN
                      /\ row.course_id = q.course_id
                      /\ q.unit = None \/ row.unit = q.unit
                      /\ q.topics = <<>>
                         \/ \E a \in DOMAIN q.topics, b \in DOMAIN row.topics :
                               q.topics[a] = row.topics[b]}}

\* The creation time of the latest record of session s that the query's
\* WHERE clause selects.
LatestMatch(q, s) ==
    LET ts == {confusion_points[i].created_at : i \in
                 {j \in RecordsOf(confusion_points, s) :
                    RowMatches(confusion_points[j], q.course_id, q.unit, q.topics)}}
    IN CHOOSE t \in ts : \A u \in ts : u <= t

\* C15: the list a query for a course returns is in descending order of
\* record creation time: of two returned sessions the one with the later
\* record comes first.
C15_QueryOrderedByCreationDesc ==
    \A w \in Workers :
        (wk[w].kind = "query" /\ wk[w].query.course_id # None)
        => \A a, b \in DOMAIN wk[w].sessions :
               a < b => LatestMatch(wk[w].query, wk[w].sessions[a])
                        >= LatestMatch(wk[w].query, wk[w].sessions[b])

\* C16: the list returned for a session holds each conversation of that
\* session once and no other row, with creation times that never decrease
\* along the list, whatever saves to other sessions came in between.
C16_ConversationsAscending ==
    \A w \in Workers :
        wk[w].kind = "list"
        => LET list == wk[w].ret[1]
               own == {i \in DOMAIN conversations :
                          conversations[i].session_id = wk[w].session_id}
           IN /\ Len(list) = Cardinality(own)
              /\ {list[k] : k \in DOMAIN list} = {conversations[i] : i \in own}
              /\ \A a, b \in DOMAIN list :
                    a < b => list[a].created_at <= list[b].created_at

\* A list of three conversations saved at three increasing times, with a
\* save to another session between the first and the last of them.
C16_Witness ==
    \E w \in Workers :
        /\ wk[w].kind = "list"
        /\ Len(wk[w].ret[1]) = 3
        /\ wk[w].ret[1][1].created_at < wk[w].ret[1][2].created_at
        /\ wk[w].ret[1][2].created_at < wk[w].ret[1][3].created_at
        /\ \E i \in DOMAIN conversations :
               /\ conversations[i].session_id # wk[w].session_id
               /\ wk[w].ret[1][1].id < conversations[i].id
               /\ conversations[i].id < wk[w].ret[1][3].id

\* C17: a classification whose completion holds a JSON object with a
\* course_id that is not null returns True and adds one record, for its
\* session, with the object's course_id, and with its unit, topics and
\* confused_conversation_ids, or None, [] and [] for those it does not hold
\* (when the INSERT does not raise).
C17_CoursePersistedAsAnswered ==
    [][\A w \in Workers :
          LET body == wk'[w].completion.body IN
          (ClassifyStep(w) /\ wk'[w].response = "json" /\ wk'[w].insert = "ok"
             /\ "course_id" \in body.fields /\ body.course_id # None)
          => /\ wk'[w].result = "True"
             /\ Len(confusion_points') = Len(confusion_points) + 1
             /\ SubSeq(confusion_points', 1, Len(confusion_points)) = confusion_points
             /\ LET row == confusion_points'[Len(confusion_points')]
                IN /\ row.session_id = wk[w].session_id
                   /\ row.course_id = body.course_id
                   /\ row.unit = (IF "unit" \in body.fields THEN body.unit ELSE None)
                   /\ row.topics = (IF "topics" \in body.fields THEN body.topics ELSE <<>>)
                   /\ row.confused_conversation_ids =
                         (IF "confused_conversation_ids" \in body.fields
                          THEN body.confused_conversation_ids ELSE <<>>)]_vars

\* A step in which free thread w takes a forced classification.
ForceStep(w) == wk[w].pc = "idle" /\ wk'[w].kind = "force" /\ wk'[w].pc # "idle"

\* The session has no conversation, or the catalog no course.
NothingToClassify(s) ==
    \/ \A i \in DOMAIN conversations : conversations[i].session_id # s
    \/ courses = {}

\* C18: a classification of a session without conversations, or with an empty
\* course catalog, returns False, asks for no completion and writes no
\* confusion record, whether it is forced or run by a sweep.
C18_NothingToClassifyReturnsFalse ==
    [][\A w \in Workers :
          /\ (ForceStep(w) /\ NothingToClassify(wk'[w].session_id))
             => /\ wk'[w].pc = "done"
                /\ wk'[w].result = "False"
                /\ wk'[w].response = "none"
                /\ confusion_points' = confusion_points
          /\ (CheckStep(w) /\ NothingToClassify(wk[w].session_id))
             => /\ wk'[w].pc # "llm"
                /\ wk'[w].result # "True"
                /\ wk'[w].response = "none"
                /\ confusion_points' = confusion_points]_vars

\* A forced classification of a session that has conversations returned False
\* without a completion call, the catalog being empty.
C18_Witness ==
    \E w \in Workers :
        /\ wk[w].kind = "force" /\ wk[w].pc = "done"
        /\ wk[w].result = "False" /\ wk[w].response = "none"
        /\ courses = {}
        /\ \E i \in DOMAIN conversations : conversations[i].session_id = wk[w].session_id
        /\ confusion_points = <<>>

\* C19: generate_review_content always returns an object that holds a summary
\* and a list of questions: the parsed value when the completion succeeded
\* and its text held JSON, the fallback with its one question otherwise.
C19_ReviewAlwaysReviewable ==
    \A w \in Workers :
        (wk[w].kind = "review" /\ wk[w].pc = "done")
        => /\ wk[w].ret # None
           /\ LET v == wk[w].ret[1]
                  c == wk[w].completion
                  failed == \/ c.transport # "ok"
                            \/ c.wrap \notin {"fence", "bare"}
              IN /\ v.kind = "object"
                 /\ {"summary", "questions"} \subseteq v.fields
                 /\ v.questions # None
                 /\ failed => (v = ReviewFallback /\ Len(v.questions[1]) = 1)
                 /\ ~failed => v = c.body

\* C20: every result of grade_student_answer holds score_percentage,
\* score_category, overall_assessment and a feedback object with the four
\* sub-fields.  When the completion failed, its text held no JSON, or the
\* parsed value lacks a top-level field, the result is the fallback with
\* score 75 and category "Good"; when the parsed object is complete, the
\* result is that object, a sub-field its feedback lacks being "".
C20_GradeAlwaysComplete ==
    \A w \in Workers :
        (wk[w].kind = "grade" /\ wk[w].pc = "done")
        => /\ wk[w].ret # None
           /\ LET v == wk[w].ret[1]
                  c == wk[w].completion
                  failed == \/ c.transport # "ok"
                            \/ c.wrap \notin {"fence", "bare"}
                            \/ c.body.kind # "object"
                            \/ \E f \in GradeFields : f \notin c.body.fields
              IN /\ v.kind = "object"
                 /\ GradeFields \subseteq v.fields
                 /\ v.feedback.kind = "object"
                 /\ FeedbackFields \subseteq DOMAIN v.feedback.items
                 /\ failed => /\ v.score_percentage = 75
                              /\ v.score_category = "Good"
                              /\ v = GradeFallback
                 /\ (~failed /\ c.body.feedback.kind = "object")
                    => /\ v.score_percentage = c.body.score_percentage
                       /\ v.score_category = c.body.score_category
                       /\ v.overall_assessment = c.body.overall_assessment
                       /\ \A f \in FeedbackFields :
                             v.feedback.items[f] =
                                IF f \in DOMAIN c.body.feedback.items
                                THEN c.body.feedback.items[f] ELSE ""

\* A grading whose feedback held only strengths was returned with its score
\* and the other three sub-fields empty.
C20_Witness ==
    \E w \in Workers :
        /\ wk[w].kind = "grade" /\ wk[w].pc = "done"
        /\ wk[w].completion.body.fields = GradeFields
        /\ wk[w].completion.body.feedback.kind = "object"
        /\ DOMAIN wk[w].completion.body.feedback.items = {"strengths"}
        /\ wk[w].ret[1].score_percentage = 90
        /\ wk[w].ret[1].feedback.items["strengths"] = "well done"
        /\ wk[w].ret[1].feedback.items["encouragement"] = ""

\* C21: a review request whose parse failed (the completion raised, or its
\* text held no JSON) is parsed as course_id None, unit None, topics []; and a
\* request parsed with course_id None is answered with a failure and a
\* message, without a query of the confusion records and without a synthesis
\* completion.
C21_UnparsedRequestRejected ==
    \A w \in Workers :
        (wk[w].kind = "request" /\ wk[w].pc = "done" /\ wk[w].completion # NoCompletion)
        => /\ (wk[w].completion.transport # "ok"
                  \/ wk[w].completion.wrap \notin {"fence", "bare"})
              => wk[w].query = [course_id |-> None, unit |-> None, topics |-> <<>>]
           /\ wk[w].query.course_id = None
              => /\ wk[w].ret # None
                 /\ wk[w].ret[1].success = FALSE
                 /\ wk[w].ret[1].message # ""
                 /\ wk[w].ret[1].content = None
                 /\ ~wk[w].queried
                 /\ wk[w].sessions = <<>>
                 /\ wk[w].synthesis = NoCompletion

\* A request whose parse answer was prose was rejected although the store
\* holds a record of course 1.
C21_Witness ==
    \E w \in Workers :
        /\ wk[w].kind = "request" /\ wk[w].pc = "done"
        /\ wk[w].completion.transport = "ok" /\ wk[w].completion.wrap = "prose"
        /\ wk[w].ret = Some(NotUnderstood)
        /\ \E i \in DOMAIN confusion_points : confusion_points[i].course_id = Some(1)

\* C22: a chat request whose message is empty or blank, or whose session id
\* is missing, is answered with an error, without a call of the completion
\* service, and leaves the conversations and the tracker as they were.
C22_InvalidChatRejectedBeforeIO ==
    [][\A m \in Messages, s \in Sessions \cup {""}, db \in DbOutcomes :
          ((m \in {"", " "} \/ s = "") /\ ChatRequest(m, s, db))
          => /\ chat'.pc = "done"
             /\ chat'.status = "error"
             /\ ~chat'.asked
             /\ conversations' = conversations
             /\ active_sessions' = active_sessions]_vars

\* A chat request was rejected unasked while the tracker holds a session.
C22_Witness ==
    /\ chat.pc = "done" /\ chat.status = "error" /\ ~chat.asked
    /\ Keys(active_sessions) # {}

\* C23: in every confusion record, each id of confused_conversation_ids is
\* the id of a conversation of the record's own session.
C23_ConfusedIdsOfOwnSession ==
    \A i \in DOMAIN confusion_points :
        \A k \in DOMAIN confusion_points[i].confused_conversation_ids :
            \E j \in DOMAIN conversations :
                /\ conversations[j].session_id = confusion_points[i].session_id
                /\ conversations[j].id = confusion_points[i].confused_conversation_ids[k]

\* C24: the context sent to the completion service shows, for each session
\* of the data, exactly the session's conversations whose id is among the
\* confused_conversation_ids of its analysis, in the session's order, and
\* none for a session without an analysis.
C24_ContextShowsExactlyFlagged ==
    \A w \in Workers :
        (wk[w].kind = "review" /\ wk[w].pc = "done" /\ wk[w].context # None)
        => LET sd == wk[w].session_data
               ctx == wk[w].context[1]
           IN /\ DOMAIN ctx = DOMAIN sd
              /\ \A k \in DOMAIN sd :
                    LET ids == IF sd[k].confusion_analysis = None THEN {}
                               ELSE {sd[k].confusion_analysis[1].confused_conversation_ids[i] :
                                       i \in DOMAIN sd[k].confusion_analysis[1].confused_conversation_ids}
                        shown == ctx[k].confused
                    IN /\ ctx[k].session_id = sd[k].session_id
                       /\ {shown[i] : i \in DOMAIN shown}
                            = {sd[k].conversations[j].id : j \in DOMAIN sd[k].conversations} \cap ids
                       /\ \A i, j \in DOMAIN shown : i < j => shown[i] < shown[j]
                       /\ sd[k].confusion_analysis = None => shown = <<>>

\* A context was sent for s1, whose conversation 1 is flagged and shown and
\* whose conversation 2 is not, and for s2, which has no analysis.
C24_Witness ==
    \E w \in Workers :
        /\ wk[w].kind = "review" /\ wk[w].pc = "done" /\ wk[w].context # None
        /\ Len(wk[w].session_data) = 2
        /\ wk[w].session_data[1].session_id = "s1"
        /\ Len(wk[w].session_data[1].conversations) = 2
        /\ wk[w].context[1][1].confused = <<1>>
        /\ wk[w].session_data[2].confusion_analysis = None
        /\ wk[w].context[1][2].confused = <<>>

\* C25: a summary that the repository answered asks for no completion and,
\* whatever the criteria match, holds session_count, confusion_count,
\* topics_with_confusion and units_with_confusion; session_count is the
\* number of sessions get_confusion_sessions returned, confusion_count the
\* sum of the lengths of their confused_conversation_ids.
C25_SummaryHoldsFourFields ==
    \A w \in Workers :
        (wk[w].kind = "summary" /\ wk[w].pc = "done" /\ wk[w].queried)
        => /\ wk[w].completion = NoCompletion /\ wk[w].synthesis = NoCompletion
           /\ wk[w].ret # None
           /\ {"session_count", "confusion_count", "topics_with_confusion",
               "units_with_confusion"} \subseteq wk[w].ret[1].fields
           /\ wk[w].ret[1].session_count = Len(wk[w].sessions)
           /\ wk[w].ret[1].confusion_count = CountConfused(wk[w].session_data)

\* A session has a stored conversation.
HasConversation(s) == \E j \in DOMAIN conversations : conversations[j].session_id = s

\* C26: every session the tracker holds, and the session a chat request is
\* about to touch, has a stored conversation; and a chat request that ends in
\* an error leaves the tracker as it was.
C26_TrackedSessionsHaveConversations ==
    /\ [](/\ \A s \in Keys(active_sessions) : HasConversation(s)
          /\ chat.pc = "touch" => HasConversation(chat.session_id))
    /\ [][(chat.pc = "idle" /\ chat'.pc = "done" /\ chat'.status = "error")
            => active_sessions' = active_sessions]_vars

\* A chat request whose INSERT raised ended in an error while another
\* session, saved and touched before, is tracked.
C26_Witness ==
    /\ chat.pc = "done" /\ chat.status = "error" /\ chat.asked
    /\ Keys(active_sessions) # {}
    /\ \E s \in Sessions : ~HasConversation(s)

\* Session t is not expired for sweep w: it is untracked, or its last
\* activity is less than SESSION_TIMEOUT before the time the sweep read.
NotExpiredFor(w, t) ==
    \/ t \notin Keys(active_sessions)
    \/ wk[w].current_time - Lookup(active_sessions, t) < SESSION_TIMEOUT

\* C27: a step of a sweep's loop is never about a session that is not
\* expired for the sweep: such a session gets no completion call and no
\* confusion record from the step, and its tracker entry stays as it was.
C27_SweepLeavesUnexpiredAlone ==
    [][\A w \in Workers, t \in Sessions :
          (wk[w].kind = "sweep" /\ wk[w].pc \in {"check", "llm"} /\ wk'[w] # wk[w]
             /\ NotExpiredFor(w, t))
          => /\ wk[w].session_id # t
             /\ ~(wk'[w].pc = "llm" /\ wk'[w].session_id = t)
             /\ RecordsOf(confusion_points', t) = RecordsOf(confusion_points, t)
             /\ (t \in Keys(active_sessions')) = (t \in Keys(active_sessions))
             /\ t \in Keys(active_sessions)
                => Lookup(active_sessions', t) = Lookup(active_sessions, t)]_vars

\* A sweep classified a session and wrote its record while another session,
\* active less than the timeout before, is still tracked.
C27_Witness ==
    \E w \in Workers :
        /\ wk[w].kind = "sweep" /\ wk[w].pc = "done"
        /\ wk[w].handled # <<>> /\ wk[w].result = "True"
        /\ confusion_points # <<>>
        /\ \E t \in Keys(active_sessions) :
              wk[w].current_time - Lookup(active_sessions, t) < SESSION_TIMEOUT

\* C28: a sweep clears a session only if the entry it removes is the one its
\* scan found expired: an entry a chat request wrote after the scan, with a
\* later activity time, is never removed by the sweep.
C28_TouchNotLostToSweep ==
    [][\A w \in Workers, s \in Sessions :
          (wk[w].kind = "sweep" /\ wk[w].pc \in {"check", "llm"} /\ wk'[w] # wk[w]
             /\ s \in Keys(active_sessions) /\ s \notin Keys(active_sessions'))
          => wk[w].current_time - Lookup(active_sessions, s) >= SESSION_TIMEOUT]_vars

\* C29: for every session that get_confusion_sessions returned for a course,
\* get_all_session_data gives an analysis, and that analysis is of the
\* course asked for, of the unit asked for when one was given, and holds one
\* of the topics asked for when topics were given.
C29_SelectedDataMeetsCriteria ==
    \A w \in Workers :
        (wk[w].kind = "criteria" /\ wk[w].pc = "done" /\ wk[w].queried)
        => LET q == wk[w].query
               sd == wk[w].session_data
           IN /\ Len(sd) = Len(wk[w].sessions)
              /\ \A k \in DOMAIN sd :
                    /\ sd[k].session_id = wk[w].sessions[k]
                    /\ sd[k].confusion_analysis # None
                    /\ LET a == sd[k].confusion_analysis[1]
                       IN /\ a.course_id = q.course_id
                          /\ q.unit # None => a.unit = q.unit
                          /\ q.topics # <<>> =>
                                \E i \in DOMAIN q.topics, j \in DOMAIN a.topics[1] :
                                    q.topics[i] = a.topics[1][j]

\* C30: every confusion record whose course_id is null has a null unit, no
\* topics and no confused conversation ids, whatever the completion held
\* beside the missing course.
C30_NullCourseRowsAreEmpty ==
    \A i \in DOMAIN confusion_points :
        confusion_points[i].course_id = None
        => /\ confusion_points[i].unit = None
           /\ confusion_points[i].topics = <<>>
           /\ confusion_points[i].confused_conversation_ids = <<>>

\* A forced classification whose completion held a unit, topics and ids but
\* a null course has written its record.
C30_Witness ==
    \E w \in Workers :
        /\ wk[w].kind = "force" /\ wk[w].pc = "done" /\ wk[w].insert = "ok"
        /\ wk[w].completion.body = JsonNoCourse
        /\ wk[w].completion.wrap = "bare"
        /\ confusion_points # <<>>
        /\ confusion_points[Len(confusion_points)].session_id = wk[w].session_id
        /\ confusion_points[Len(confusion_points)].course_id = None

====
